---- MODULE Spec2Model ----
(***************************************************************************)
(* Model of ab-glyph's ttf-parser backend (glyph/src/ttfp.rs): the Font    *)
(* trait implementation generated by impl_font! for FontRef and FontVec.   *)
(*                                                                         *)
(* A font is an immutable value holding the parsed tables.  Every trait    *)
(* method is one action: it reads the font, and leaves its name, its       *)
(* arguments and its outcome (a returned value or a panic) in the state.   *)
(* A panic unwinds the calling thread and leaves the font as it was: a     *)
(* caller that catches it, or another thread that shares the font, goes on *)
(* querying it, so every query is enabled after a panic too.               *)
(*                                                                         *)
(* Option<T> is a sequence of length at most one: None is <<>>, Some(x)    *)
(* is <<x>>.  i16/u16 metrics converted with f32::from are exact, so a     *)
(* metric is modelled by its integer value.                                *)
(***************************************************************************)
EXTENDS Integers, Sequences, FiniteSets, TLC

VARIABLES font, op, arg, result, outliner

vars == <<font, op, arg, result, outliner>>

\* ------------------------------------------------------------------ bounds

\* Largest number_of_glyphs of a font; queries use the ids 0..MaxGlyphs, so
\* that the id number_of_glyphs (the first invalid one) is always queried.
MaxGlyphs == 2

\* Largest number of layers a base glyph has in the layer table.
MaxLayers == 2

\* Largest number of kerning subtables.
MaxSubtables == 2

\* ----------------------------------------------------------------- options

None == <<>>

Some(x) == <<x>>

IsSome(o) == Len(o) = 1

Unwrap(o) == o[1]

Returned(v) == [outcome |-> "returned", value |-> v]

Panicked(msg) == [outcome |-> "panicked", value |-> msg]

\* The panic of Option::unwrap on a None value.
UnwrapNone == "unwrap on None"

\* ------------------------------------------------ Outline Curve Builder
\* glyph/src/ttfp/outliner.rs (declared by `mod outliner;`): the sink the
\* decoder drives with the path-construction protocol.

point(x, y) == [x |-> x, y |-> y]

\* #[derive(Default)]: the origin as the current point, no curve.
OutlineCurveBuilderDefault == [last |-> point(0, 0), outline |-> <<>>]

move_to(b, x, y) == [b EXCEPT !.last = point(x, y)]

line_to(b, x, y) ==
    [last |-> point(x, y),
     outline |-> Append(b.outline,
        [curve |-> "Line", pts |-> <<b.last, point(x, y)>>])]

quad_to(b, x1, y1, x, y) ==
    [last |-> point(x, y),
     outline |-> Append(b.outline,
        [curve |-> "Quad", pts |-> <<b.last, point(x1, y1), point(x, y)>>])]

cubic_to(b, x1, y1, x2, y2, x, y) ==
    [last |-> point(x, y),
     outline |-> Append(b.outline,
        [curve |-> "Cubic",
         pts |-> <<b.last, point(x1, y1), point(x2, y2), point(x, y)>>])]

\* close() emits no segment and keeps the current point.
close(b) == b

\* take_outline(): the accumulated curves, and the builder reset.
take_outline(b) == [curves |-> b.outline, builder |-> OutlineCurveBuilderDefault]

\* One call of the protocol, as the decoder issues it.
Call(b, c) ==
    CASE c.op = "move_to"  -> move_to(b, c.a[1], c.a[2])
      [] c.op = "line_to"  -> line_to(b, c.a[1], c.a[2])
      [] c.op = "quad_to"  -> quad_to(b, c.a[1], c.a[2], c.a[3], c.a[4])
      [] c.op = "cubic_to" -> cubic_to(b, c.a[1], c.a[2], c.a[3], c.a[4], c.a[5], c.a[6])
      [] c.op = "close"    -> close(b)

RECURSIVE Drive(_, _)
\* The decoder's calls on the builder, in order.
Drive(cmds, b) ==
    IF cmds = <<>> THEN b ELSE Drive(Tail(cmds), Call(b, Head(cmds)))

\* ------------------------------------------------------- font table data

M(x, y) == [op |-> "move_to", a |-> <<x, y>>]

L(x, y) == [op |-> "line_to", a |-> <<x, y>>]

Q(x1, y1, x, y) == [op |-> "quad_to", a |-> <<x1, y1, x, y>>]

C(x1, y1, x2, y2, x, y) == [op |-> "cubic_to", a |-> <<x1, y1, x2, y2, x, y>>]

Z == [op |-> "close", a |-> <<>>]

TtfRect(x_min, y_min, x_max, y_max) ==
    [x_min |-> x_min, y_min |-> y_min, x_max |-> x_max, y_max |-> y_max]

\* The glyph programs of the glyph table: what the decoder reports as the
\* bounding box, and the calls it makes on the builder.
\*   1 a triangle of lines, explicitly closed by a line back to the start
\*   2 a contour of a quadratic and a cubic
\*   3 a space: no calls, no bounding box
\*   4 a glyph the decoder starts to draw and then reports no box for
\*   5 a contour that starts with line_to, without a move_to
Shapes ==
    << [bbox |-> Some(TtfRect(1, -2, 10, 12)),
        cmds |-> <<M(1, -2), L(10, -2), L(5, 12), L(1, -2), Z>>],
       [bbox |-> Some(TtfRect(-3, 0, 8, 9)),
        cmds |-> <<M(-3, 0), Q(0, 9, 8, 0), C(5, 1, 2, 1, -3, 0), Z>>],
       [bbox |-> None, cmds |-> <<>>],
       [bbox |-> None, cmds |-> <<M(2, 2), L(4, 4)>>],
       [bbox |-> Some(TtfRect(0, 0, 3, 3)), cmds |-> <<L(3, 3), Z>>] >>

NShapes == Len(Shapes)

\* A glyph table of n glyphs: the shapes in rotation, starting at r.
Glyf(n, r) == [g \in 0 .. n - 1 |-> Shapes[((g + r) % NShapes) + 1]]

RGBA(r, g, b, a) == [r |-> r, g |-> g, b |-> b, a |-> a]

Red == RGBA(255, 0, 0, 255)

Green == RGBA(0, 255, 0, 255)

Odd == RGBA(1, 2, 3, 4)

\* The palette tables: none; two palettes of two entries, which differ at
\* every index; one palette of one entry (index 1 has no entry).
Cpals ==
    { None,
      Some(<< <<Red, Green>>, <<Odd, Red>> >>),
      Some(<< <<Odd>> >>) }

RECURSIVE SeqsUpTo(_, _)
\* The sequences over S of length at most n.
SeqsUpTo(S, n) ==
    IF n = 0 THEN {<<>>}
    ELSE LET shorter == SeqsUpTo(S, n - 1)
         IN  shorter \cup {Append(q, x) : q \in shorter, x \in S}

\* A layer of the layer table: its glyph id (valid or not) and its index
\* into a palette.
Layers == [glyph_id : 0 .. MaxGlyphs, palette_index : 0 .. 1]

\* The layer tables: none, or glyph 0 as the one base glyph, with its layer
\* list (CmapFonts has other base glyphs).
Colrs ==
    {None} \cup
    {Some([base |-> 0, layers |-> ls]) : ls \in SeqsUpTo(Layers, MaxLayers)}

\* The pair maps of a kerning subtable.
PairMaps ==
    { (<<0, 1>> :> -50),
      (<<0, 1>> :> 30) @@ (<<1, 0>> :> 7),
      (<<1, 0>> :> 0) }

Subtables == [horizontal : BOOLEAN, variable : BOOLEAN, pairs : PairMaps]

Chars == {"s", "a"}

\* The character maps: each character unmapped, or mapped to a glyph id
\* (56 is the id of 's' in Exo2-Light.otf).
Cmaps == [Chars -> {None, Some(0), Some(1), Some(56)}]

\* A metrics table (hmtx, vmtx) of n glyphs.
Mtx(n, base) == [g \in 0 .. n - 1 |-> [advance |-> base + 10 * g, side_bearing |-> g - 1]]

DefaultFont ==
    [number_of_glyphs |-> MaxGlyphs,
     cmap |-> [c \in Chars |-> None],
     glyf |-> Glyf(MaxGlyphs, 0),
     colr |-> None,
     cpal |-> None,
     hmtx |-> Some(Mtx(MaxGlyphs, 500)),
     vmtx |-> None,
     kern |-> <<>>]

\* Fonts that vary the colour tables, over two glyph tables: one whose
\* glyphs all have outlines, one with a glyph that has none.
ColorFonts ==
    {[DefaultFont EXCEPT !.colr = colr, !.cpal = cpal, !.glyf = Glyf(MaxGlyphs, r)] :
        colr \in Colrs, cpal \in Cpals, r \in 0 .. 1}

\* Fonts that vary the glyph table.
OutlineFonts ==
    {[DefaultFont EXCEPT !.glyf = Glyf(MaxGlyphs, r)] : r \in 0 .. NShapes - 1}

\* Fonts that vary the glyph count and the presence of the metric tables.
MetricFonts ==
    {[DefaultFont EXCEPT !.number_of_glyphs = n, !.glyf = Glyf(n, 0),
                         !.hmtx = IF h THEN Some(Mtx(n, 500)) ELSE None,
                         !.vmtx = IF v THEN Some(Mtx(n, 1000)) ELSE None] :
        n \in 1 .. MaxGlyphs, h \in BOOLEAN, v \in BOOLEAN}

\* Fonts that vary the kerning subtables.
KernFonts ==
    {[DefaultFont EXCEPT !.kern = k] : k \in SeqsUpTo(Subtables, MaxSubtables)}

\* Fonts that vary the character map, with and without colour layers on the
\* mapped glyphs.
CmapFonts ==
    {[DefaultFont EXCEPT !.cmap = m, !.colr = colr,
                         !.cpal = Some(<< <<Red, Green>>, <<Odd, Red>> >>)] :
        m \in Cmaps,
        colr \in {None} \cup
                 {Some([base |-> g,
                        layers |-> <<[glyph_id |-> 1 - g, palette_index |-> 0]>>]) :
                     g \in 0 .. 1}}

Fonts == ColorFonts \cup OutlineFonts \cup MetricFonts \cup KernFonts \cup CmapFonts

\* ------------------------------------------- the table decoder, as called
\* owned_ttf_parser::Face: what each accessor the backend calls answers for
\* a font f.

number_of_glyphs(f) == f.number_of_glyphs

glyph_index(f, c) == f.cmap[c]

\* A metric of glyph g in table t: None without the table or for an id the
\* font does not have.
Metric(f, t, g, field) ==
    IF IsSome(t) /\ g \in 0 .. number_of_glyphs(f) - 1
    THEN Some(Unwrap(t)[g][field])
    ELSE None

glyph_hor_advance(f, g) == Metric(f, f.hmtx, g, "advance")

glyph_hor_side_bearing(f, g) == Metric(f, f.hmtx, g, "side_bearing")

glyph_ver_advance(f, g) == Metric(f, f.vmtx, g, "advance")

glyph_ver_side_bearing(f, g) == Metric(f, f.vmtx, g, "side_bearing")

kerning_subtables(f) == f.kern

glyphs_kerning(st, first, second) ==
    IF <<first, second>> \in DOMAIN st.pairs
    THEN Some(st.pairs[<<first, second>>])
    ELSE None

\* The layer list of a base glyph, None for a glyph the layer table does
\* not list.
colr_layers(f, g) ==
    IF IsSome(f.colr) /\ Unwrap(f.colr).base = g
    THEN Some(Unwrap(f.colr).layers)
    ELSE None

\* Entry `index` of palette `palette`, both counted from 0.
cpal_color(f, palette, index) ==
    IF /\ IsSome(f.cpal)
       /\ palette < Len(Unwrap(f.cpal))
       /\ index < Len(Unwrap(f.cpal)[palette + 1])
    THEN Some(Unwrap(f.cpal)[palette + 1][index + 1])
    ELSE None

\* outline_glyph(id, &mut builder): drives the builder and reports the
\* bounding box; for an id the font does not have, None and no call.
outline_glyph(f, g, b) ==
    IF g \in 0 .. number_of_glyphs(f) - 1
    THEN [rect |-> f.glyf[g].bbox, builder |-> Drive(f.glyf[g].cmds, b)]
    ELSE [rect |-> None, builder |-> b]

\* ------------------------------------------------- impl Font (impl_font!)

\* The commented-out variant of glyph_id: the first layer's glyph instead
\* of a glyph that has colour layers.
glyph_id_first_layer(f, c) ==
    LET index == IF IsSome(glyph_index(f, c)) THEN Unwrap(glyph_index(f, c)) ELSE 0
        layers == colr_layers(f, index)
    IN  IF IsSome(layers) /\ Len(Unwrap(layers)) > 0
        THEN Returned(Unwrap(layers)[1].glyph_id)
        ELSE Returned(index)

\* glyph_index(c).map(|id| id.0).unwrap_or(0)
glyph_id(f, c) ==
    LET index == IF IsSome(glyph_index(f, c)) THEN Unwrap(glyph_index(f, c)) ELSE 0
    IN  Returned(index)

\* Option::expect(msg), then f32::from.
Expect(o, msg) == IF IsSome(o) THEN Returned(Unwrap(o)) ELSE Panicked(msg)

h_advance_unscaled(f, id) ==
    Expect(glyph_hor_advance(f, id), "Invalid glyph_hor_advance")

h_side_bearing_unscaled(f, id) ==
    Expect(glyph_hor_side_bearing(f, id), "Invalid glyph_hor_side_bearing")

v_advance_unscaled(f, id) ==
    Expect(glyph_ver_advance(f, id), "Invalid glyph_ver_advance")

v_side_bearing_unscaled(f, id) ==
    Expect(glyph_ver_side_bearing(f, id), "Invalid glyph_ver_side_bearing")

RECURSIVE find_map(_, _, _)
\* Iterator::find_map: the first subtable, in order, that defines the pair.
find_map(sts, first, second) ==
    IF sts = <<>> THEN None
    ELSE IF IsSome(glyphs_kerning(Head(sts), first, second))
         THEN glyphs_kerning(Head(sts), first, second)
         ELSE find_map(Tail(sts), first, second)

RECURSIVE SumKerning(_, _, _)
SumKerning(sts, first, second) ==
    IF sts = <<>> THEN 0
    ELSE (IF IsSome(glyphs_kerning(Head(sts), first, second))
          THEN Unwrap(glyphs_kerning(Head(sts), first, second)) ELSE 0)
         + SumKerning(Tail(sts), first, second)

\* kern_unscaled that adds up the values of all the subtables it scans.
kern_unscaled_summed(f, first, second) ==
    Returned(SumKerning(
        SelectSeq(kerning_subtables(f), LAMBDA st : st.horizontal /\ ~st.variable),
        first, second))

\* filter, find_map, map(f32::from), unwrap_or_default
kern_unscaled(f, first, second) ==
    LET found == find_map(
            SelectSeq(kerning_subtables(f), LAMBDA st : st.horizontal /\ ~st.variable),
            first, second)
    IN  Returned(IF IsSome(found) THEN Unwrap(found) ELSE 0)

relative_scale(f, glyph) == Returned(1)

\* has_color that asks for a layer, not for a layer-table entry.
has_color_nonempty(f, id) ==
    IsSome(colr_layers(f, id)) /\ Len(Unwrap(colr_layers(f, id))) > 0

has_color(f, id) == IsSome(colr_layers(f, id))

\* The builder of one extraction, where prev is the builder the previous
\* extraction left behind: reused instead of created.
ReusedOutliner(prev) == prev

\* let mut outliner = OutlineCurveBuilder::default(): a builder of its own
\* for every extraction, whatever the previous one left behind.
NewOutliner(prev) == OutlineCurveBuilderDefault

\* The bounding box without the vertical flip.
BoundsUnflipped(r) ==
    [min |-> point(r.x_min, r.y_min), max |-> point(r.x_max, r.y_max)]

\* Rect { min: point(x_min, y_max), max: point(x_max, y_min) }
Bounds(r) ==
    [min |-> point(r.x_min, r.y_max), max |-> point(r.x_max, r.y_min)]

\* outline(id): the Option<Outline> it returns, and the builder it leaves.
outline(f, id, prev) ==
    LET driven == outline_glyph(f, id, NewOutliner(prev))
    IN  IF ~IsSome(driven.rect)
        THEN [value |-> None, outliner |-> driven.builder]
        ELSE LET taken == take_outline(driven.builder)
             IN  [value |-> Some([bounds |-> Bounds(Unwrap(driven.rect)),
                                  curves |-> taken.curves]),
                  outliner |-> taken.builder]

\* A u32 is held as its two 16-bit halves, the value being
\* hi * 2^16 + lo: the checker's integers are 32-bit signed ones, and
\* 0xFF0000FF is not one of them.
U32(hi, lo) == [hi |-> hi, lo |-> lo]

\* u32::from_le_bytes: the first byte is the least significant one.
from_le_bytes(bytes) ==
    U32(bytes[4] * 256 + bytes[3], bytes[2] * 256 + bytes[1])

\* u32::from_be_bytes: the first byte is the most significant one.
from_be_bytes(bytes) ==
    U32(bytes[1] * 256 + bytes[2], bytes[3] * 256 + bytes[4])

\* The closure of color_outlines on one layer: the palette entry unwrapped,
\* packed, then the layer's outline unwrapped.
ResolveLayer(f, layer, prev) ==
    LET color == cpal_color(f, 0, layer.palette_index)
    IN  IF ~IsSome(color)
        THEN [result |-> Panicked(UnwrapNone), outliner |-> prev]
        ELSE LET c == Unwrap(color)
                 color_int == from_be_bytes(<<c.r, c.g, c.b, c.a>>)
                 o == outline(f, layer.glyph_id, prev)
             IN  IF ~IsSome(o.value)
                 THEN [result |-> Panicked(UnwrapNone), outliner |-> o.outliner]
                 ELSE [result |-> Returned(<<Unwrap(o.value), color_int>>),
                       outliner |-> o.outliner]

RECURSIVE SkipLayers(_, _, _, _)
SkipLayers(f, layers, prev, acc) ==
    IF layers = <<>> THEN [result |-> Returned(acc), outliner |-> prev]
    ELSE LET one == ResolveLayer(f, Head(layers), prev)
         IN  SkipLayers(f, Tail(layers), one.outliner,
                        IF one.result.outcome = "panicked" THEN acc
                        ELSE Append(acc, one.result.value))

\* The layers collected with the unresolvable ones skipped.
CollectSkipping(f, layers, prev) == SkipLayers(f, layers, prev, <<>>)

RECURSIVE MapLayers(_, _, _, _)
MapLayers(f, layers, prev, acc) ==
    IF layers = <<>> THEN [result |-> Returned(acc), outliner |-> prev]
    ELSE LET one == ResolveLayer(f, Head(layers), prev)
         IN  IF one.result.outcome = "panicked" THEN one
             ELSE MapLayers(f, Tail(layers), one.outliner,
                            Append(acc, one.result.value))

\* iter.map(closure).collect(): the layers in the table's order, up to the
\* first panic.
Collect(f, layers, prev) == MapLayers(f, layers, prev, <<>>)

Reverse(q) == [i \in 1 .. Len(q) |-> q[Len(q) + 1 - i]]

\* color_outlines with the layers taken from the last to the first.
color_outlines_reversed(f, id, prev) ==
    LET layers == colr_layers(f, id)
    IN  IF ~IsSome(layers)
        THEN [result |-> Returned(None), outliner |-> prev]
        ELSE LET all == Collect(f, Reverse(Unwrap(layers)), prev)
             IN  IF all.result.outcome = "panicked" THEN all
                 ELSE [result |-> Returned(Some(all.result.value)),
                       outliner |-> all.outliner]

\* colr_layers(id).map(|iter| iter.map(closure).collect())
color_outlines(f, id, prev) ==
    LET layers == colr_layers(f, id)
    IN  IF ~IsSome(layers)
        THEN [result |-> Returned(None), outliner |-> prev]
        ELSE LET all == Collect(f, Unwrap(layers), prev)
             IN  IF all.result.outcome = "panicked" THEN all
                 ELSE [result |-> Returned(Some(all.result.value)),
                       outliner |-> all.outliner]

glyph_count(f) == Returned(number_of_glyphs(f))

\* ------------------------------------------------------------ the machine

\* The glyph ids queried: the font's own, and ids it does not have.
Ids == 0 .. MaxGlyphs

\* A &self method call: enabled in every state, after a panic as well (the
\* panic unwinds the call and the font is untouched).
Query(name, args, res) ==
    /\ op' = name
    /\ arg' = args
    /\ result' = res
    /\ UNCHANGED font

Init ==
    /\ font \in Fonts
    /\ op = "try_from_slice"
    /\ arg = <<>>
    /\ result = Returned("font")
    /\ outliner = OutlineCurveBuilderDefault

GlyphId ==
    \E c \in Chars :
        /\ Query("glyph_id", <<c>>, glyph_id(font, c))
        /\ UNCHANGED outliner

HAdvance ==
    \E id \in Ids :
        /\ Query("h_advance_unscaled", <<id>>, h_advance_unscaled(font, id))
        /\ UNCHANGED outliner

HSideBearing ==
    \E id \in Ids :
        /\ Query("h_side_bearing_unscaled", <<id>>, h_side_bearing_unscaled(font, id))
        /\ UNCHANGED outliner

VAdvance ==
    \E id \in Ids :
        /\ Query("v_advance_unscaled", <<id>>, v_advance_unscaled(font, id))
        /\ UNCHANGED outliner

VSideBearing ==
    \E id \in Ids :
        /\ Query("v_side_bearing_unscaled", <<id>>, v_side_bearing_unscaled(font, id))
        /\ UNCHANGED outliner

Kern ==
    \E first \in Ids, second \in Ids :
        /\ Query("kern_unscaled", <<first, second>>, kern_unscaled(font, first, second))
        /\ UNCHANGED outliner

RelativeScale ==
    \E id \in Ids :
        /\ Query("relative_scale", <<id>>, relative_scale(font, id))
        /\ UNCHANGED outliner

HasColor ==
    \E id \in Ids :
        /\ Query("has_color", <<id>>, Returned(has_color(font, id)))
        /\ UNCHANGED outliner

ColorOutlines ==
    \E id \in Ids :
        LET r == color_outlines(font, id, outliner)
        IN  /\ Query("color_outlines", <<id>>, r.result)
            /\ outliner' = r.outliner

Outline ==
    \E id \in Ids :
        LET r == outline(font, id, outliner)
        IN  /\ Query("outline", <<id>>, Returned(r.value))
            /\ outliner' = r.outliner

GlyphCount ==
    /\ Query("glyph_count", <<>>, glyph_count(font))
    /\ UNCHANGED outliner

Next ==
    \/ GlyphId
    \/ HAdvance
    \/ HSideBearing
    \/ VAdvance
    \/ VSideBearing
    \/ Kern
    \/ RelativeScale
    \/ HasColor
    \/ ColorOutlines
    \/ Outline
    \/ GlyphCount

Spec == Init /\ [][Next]_vars

\* ------------------------------------------------------------- properties
\* What the tables of a font say, read off the tables themselves.

\* The glyph id the last query was about.
QueriedId == arg[1]

ReturnedValue == result.outcome = "returned"

\* The layer table lists glyph g.
Listed(f, g) == IsSome(f.colr) /\ Unwrap(f.colr).base = g

LayerList(f) == Unwrap(f.colr).layers

\* The decoder reports a bounding box for glyph g.
HasBox(f, g) == g \in 0 .. f.number_of_glyphs - 1 /\ IsSome(f.glyf[g].bbox)

\* Palette 0 has an entry at index i.
InPalette0(f, i) ==
    IsSome(f.cpal) /\ Len(Unwrap(f.cpal)) >= 1 /\ i < Len(Unwrap(f.cpal)[1])

Palette0(f, i) == Unwrap(f.cpal)[1][i + 1]

\* The curves the calls of glyph g's program describe, from a builder that
\* has seen no other call.
CurvesOf(f, g) == Drive(f.glyf[g].cmds, OutlineCurveBuilderDefault).outline

\* A colour packed as r*2^24 + g*2^16 + b*2^8 + a, in 16-bit halves.
Packed(c) == U32(c.r * 256 + c.g, c.b * 256 + c.a)

TriangleCurves ==
    << [curve |-> "Line", pts |-> <<point(1, -2), point(10, -2)>>],
       [curve |-> "Line", pts |-> <<point(10, -2), point(5, 12)>>],
       [curve |-> "Line", pts |-> <<point(5, 12), point(1, -2)>>] >>

CurvyCurves ==
    << [curve |-> "Quad", pts |-> <<point(-3, 0), point(0, 9), point(8, 0)>>],
       [curve |-> "Cubic",
        pts |-> <<point(8, 0), point(5, 1), point(2, 1), point(-3, 0)>>] >>

\* C1, as the specification states it: has_color(id) is true exactly when
\* color_outlines(id) returns Some, for every font and every glyph id, a
\* self-inconsistent layer table included.  Stated for the fonts whose
\* palette 0 has the entry of every layer, where the one inconsistency left
\* is a layer whose glyph has no outline.
C1_HasColorIffSome ==
    ( /\ op = "color_outlines"
      /\ Listed(font, QueriedId) =>
            \A i \in 1 .. Len(LayerList(font)) :
                InPalette0(font, LayerList(font)[i].palette_index) )
    => (has_color(font, QueriedId) <=> (ReturnedValue /\ IsSome(result.value)))

\* C1, amended: color_outlines(id) returns None exactly when has_color(id)
\* is false; when has_color(id) is true it returns Some(sequence) if every
\* layer has its entry in palette 0 and its glyph has an outline, and ends
\* in a fatal fault otherwise.
C1_NoneIffNoColor ==
    op = "color_outlines" =>
        /\ (ReturnedValue /\ result.value = None) <=> ~has_color(font, QueriedId)
        /\ has_color(font, QueriedId) =>
              ((ReturnedValue /\ IsSome(result.value)) <=>
               \A i \in 1 .. Len(LayerList(font)) :
                   /\ InPalette0(font, LayerList(font)[i].palette_index)
                   /\ HasBox(font, LayerList(font)[i].glyph_id))
        /\ has_color(font, QueriedId) /\ ~ReturnedValue => result = Panicked(UnwrapNone)

C1_Witness ==
    /\ op = "color_outlines"
    /\ has_color(font, QueriedId)
    /\ ReturnedValue
    /\ IsSome(result.value)
    /\ Len(Unwrap(result.value)) = 2

\* C2: the sequence color_outlines returns has one element per layer of
\* the layer table, the i-th being the outline of the i-th layer's glyph
\* with the i-th layer's colour: none dropped, duplicated or reordered.
C2_LayersInTableOrder ==
    (op = "color_outlines" /\ ReturnedValue /\ IsSome(result.value)) =>
        /\ Listed(font, QueriedId)
        /\ Len(Unwrap(result.value)) = Len(LayerList(font))
        /\ \A i \in 1 .. Len(LayerList(font)) :
              LET layer == LayerList(font)[i]
                  pair == Unwrap(result.value)[i]
              IN  /\ pair[1].curves = CurvesOf(font, layer.glyph_id)
                  /\ pair[1].bounds = Bounds(Unwrap(font.glyf[layer.glyph_id].bbox))
                  /\ pair[2] = Packed(Palette0(font, layer.palette_index))

C2_Witness ==
    /\ op = "color_outlines"
    /\ ReturnedValue
    /\ IsSome(result.value)
    /\ Len(Unwrap(result.value)) = 2
    /\ Unwrap(result.value)[1][1].curves = TriangleCurves
    /\ Unwrap(result.value)[2][1].curves = CurvyCurves
    /\ Unwrap(result.value)[1][2] /= Unwrap(result.value)[2][2]

\* C3: the colour of every returned layer is the entry of palette 0 at the
\* layer's palette index, packed with R in the most significant byte and A
\* in the least significant one: (255,0,0,255) is 0xFF0000FF (halves 0xFF00,
\* 0x00FF) and (0,255,0,255) is 0x00FF00FF (halves 0x00FF, 0x00FF).
C3_Palette0BigEndian ==
    (op = "color_outlines" /\ ReturnedValue /\ IsSome(result.value)) =>
        \A i \in 1 .. Len(Unwrap(result.value)) :
            LET c == Unwrap(font.cpal)[1][LayerList(font)[i].palette_index + 1]
                packed == Unwrap(result.value)[i][2]
            IN  /\ packed.hi = c.r * 256 + c.g
                /\ packed.lo = c.b * 256 + c.a
                /\ (c = RGBA(255, 0, 0, 255) => packed = U32(65280, 255))
                /\ (c = RGBA(0, 255, 0, 255) => packed = U32(255, 255))

C3_Witness ==
    /\ op = "color_outlines"
    /\ ReturnedValue
    /\ IsSome(result.value)
    /\ Len(Unwrap(result.value)) = 2
    /\ Len(Unwrap(font.cpal)) = 2
    /\ Palette0(font, LayerList(font)[1].palette_index) = RGBA(255, 0, 0, 255)
    /\ Palette0(font, LayerList(font)[2].palette_index) = RGBA(0, 255, 0, 255)
    /\ Unwrap(result.value)[1][2] = U32(65280, 255)
    /\ Unwrap(result.value)[2][2] = U32(255, 255)

\* C4: color_outlines of a glyph with colour layers returns a value, and
\* does not end in a fatal fault, when a layer's palette index has no entry
\* in palette 0 or the font has no palette table.  Stated for the layer
\* lists whose glyphs all have outlines, where the palette alone is missing.
C4_MissingPaletteReturns ==
    ( /\ op = "color_outlines"
      /\ Listed(font, QueriedId)
      /\ \A i \in 1 .. Len(LayerList(font)) : HasBox(font, LayerList(font)[i].glyph_id)
      /\ \E i \in 1 .. Len(LayerList(font)) :
            ~InPalette0(font, LayerList(font)[i].palette_index) )
    => ReturnedValue

\* C5: outline(id) is None exactly when the decoder reports no bounding
\* box; otherwise its bounds are min = (x_min, y_max), max = (x_max, y_min)
\* of the reported box and its curves are those of that one extraction.
C5_OutlineOfBox ==
    op = "outline" =>
        /\ ReturnedValue
        /\ (result.value = None) <=> ~HasBox(font, QueriedId)
        /\ HasBox(font, QueriedId) =>
              LET box == Unwrap(font.glyf[QueriedId].bbox)
                  o == Unwrap(result.value)
              IN  /\ o.bounds.min = point(box.x_min, box.y_max)
                  /\ o.bounds.max = point(box.x_max, box.y_min)
                  /\ o.curves = CurvesOf(font, QueriedId)

C5_Witness ==
    /\ op = "outline"
    /\ ReturnedValue
    /\ IsSome(result.value)
    /\ Unwrap(result.value).bounds = [min |-> point(1, 12), max |-> point(10, -2)]
    /\ Unwrap(result.value).curves = TriangleCurves

\* The subtables, by position, that are horizontal and not variable and
\* define the queried pair.
Defining(f, first, second) ==
    {i \in 1 .. Len(f.kern) :
        /\ f.kern[i].horizontal
        /\ ~f.kern[i].variable
        /\ <<first, second>> \in DOMAIN f.kern[i].pairs}

Min(S) == CHOOSE x \in S : \A y \in S : x <= y

\* C6: kern_unscaled is the value of the first subtable, in table order,
\* among the horizontal non-variable ones that define the pair, never a
\* sum, and 0.0 when none of those defines it.
C6_FirstMatchingSubtable ==
    op = "kern_unscaled" =>
        LET defining == Defining(font, arg[1], arg[2])
        IN  /\ ReturnedValue
            /\ defining = {} => result.value = 0
            /\ defining /= {} =>
                  result.value = font.kern[Min(defining)].pairs[<<arg[1], arg[2]>>]

C6_Witness ==
    /\ op = "kern_unscaled"
    /\ arg = <<0, 1>>
    /\ Defining(font, 0, 1) = {1, 2}
    /\ font.kern[1].pairs[<<0, 1>>] = -50
    /\ font.kern[2].pairs[<<0, 1>>] = 30
    /\ result = Returned(-50)

MetricQueries ==
    {"h_advance_unscaled", "h_side_bearing_unscaled",
     "v_advance_unscaled", "v_side_bearing_unscaled"}

\* C7: an advance or side-bearing query ends in a fatal fault exactly when
\* the glyph id is outside 0..glyph_count(), whatever metric tables the
\* font carries.
C7_FaultIffInvalidId ==
    op \in MetricQueries =>
        (~ReturnedValue <=> QueriedId \notin 0 .. glyph_count(font).value - 1)

\* C8: glyph_id(c) is the glyph the character map assigns to c, GlyphId(0)
\* when c is unmapped, and never a colour layer's glyph in its place; with
\* 's' mapped to 56 it is GlyphId(56).
C8_GlyphIdOfCmap ==
    op = "glyph_id" =>
        /\ ReturnedValue
        /\ font.cmap[arg[1]] = None => result.value = 0
        /\ font.cmap[arg[1]] /= None => result.value = font.cmap[arg[1]][1]
        /\ (arg[1] = "s" /\ font.cmap["s"] = Some(56)) => result.value = 56

C8_Witness ==
    /\ op = "glyph_id"
    /\ arg = <<"s">>
    /\ font.cmap["s"] = Some(1)
    /\ Listed(font, 1)
    /\ LayerList(font)[1].glyph_id = 0
    /\ result = Returned(1)

\* C9: when a glyph has colour layers and a layer's glyph has no outline,
\* color_outlines ends in a fatal fault, wherever the layer is in the list:
\* it returns neither None nor the other layers.
C9_UnresolvableLayerFaults ==
    ( /\ op = "color_outlines"
      /\ Listed(font, QueriedId)
      /\ \E i \in 1 .. Len(LayerList(font)) : ~HasBox(font, LayerList(font)[i].glyph_id) )
    => ~ReturnedValue

C9_Witness ==
    /\ op = "color_outlines"
    /\ Listed(font, QueriedId)
    /\ Len(LayerList(font)) = 2
    /\ HasBox(font, LayerList(font)[1].glyph_id)
    /\ InPalette0(font, LayerList(font)[1].palette_index)
    /\ InPalette0(font, LayerList(font)[2].palette_index)
    /\ ~HasBox(font, LayerList(font)[2].glyph_id)
    /\ result = Panicked(UnwrapNone)

\* The outline of glyph g on a font no query has been made on.
FreshOutline(f, g) ==
    IF HasBox(f, g)
    THEN Some([bounds |-> [min |-> point(Unwrap(f.glyf[g].bbox).x_min,
                                         Unwrap(f.glyf[g].bbox).y_max),
                           max |-> point(Unwrap(f.glyf[g].bbox).x_max,
                                         Unwrap(f.glyf[g].bbox).y_min)],
               curves |-> CurvesOf(f, g)])
    ELSE None

\* C10: no query changes the font, and whatever queries came before,
\* outline(id) returns what it returns on a fresh font and every layer of
\* color_outlines has the curves of its own glyph alone: nothing of an
\* earlier extraction is left in a builder.
C10_QueriesArePure ==
    [][ /\ font' = font
        /\ op' = "outline" => result'.value = FreshOutline(font, arg'[1])
        /\ (op' = "color_outlines" /\ result'.outcome = "returned"
                /\ IsSome(result'.value)) =>
              \A i \in 1 .. Len(Unwrap(result'.value)) :
                  Some(Unwrap(result'.value)[i][1])
                      = FreshOutline(font, LayerList(font)[i].glyph_id) ]_vars

C10_Witness ==
    /\ op = "color_outlines"
    /\ ReturnedValue
    /\ IsSome(result.value)
    /\ Len(Unwrap(result.value)) = 2
    /\ LayerList(font)[1].glyph_id /= LayerList(font)[2].glyph_id
    /\ Unwrap(result.value)[1][1].curves = CurvyCurves
    /\ Unwrap(result.value)[2][1].curves = TriangleCurves
    /\ outliner = OutlineCurveBuilderDefault

====
